---- MODULE Spec2Model ----
(***************************************************************************)
(* Model of elfrs (src/main.rs): the tool opens a file, reads up to        *)
(* EI_NIDENT bytes into the e_ident buffer and runs an ordered chain of    *)
(* checks over it.  Each check either prints a line on stdout and moves    *)
(* on, or panics with a message.                                           *)
(***************************************************************************)
EXTENDS Integers, Sequences, FiniteSets, TLC

\* ---------------------------------------------------------------------
\* Program constants (src/main.rs:7-102)
\* ---------------------------------------------------------------------
ELFMAG == <<127, 69, 76, 70>>

SELFMAG == 4

EI_CLASS == 4

ELFCLASSNONE == 0

ELFCLASS32 == 1

ELFCLASS64 == 2

EI_NIDENT == 16

EI_DATA == 5

ELFDATANONE == 0

ELFDATA2LSB == 1

ELFDATA2MSB == 2

EI_VERSION == 6

EV_NONE == 0

EV_CURRENT == 1

EI_OSABI == 7

ELFOSABI_NONE == 0

ELFOSABI_SYSV == 0

ELFOSABI_HPUX == 1

ELFOSABI_NETBSD == 2

ELFOSABI_LINUX == 3

ELFOSABI_SOLARIS == 6

ELFOSABI_AIX == 7

ELFOSABI_IRIX == 8

ELFOSABI_FREEBSD == 9

ELFOSABI_TRU64 == 10

ELFOSABI_MODESTO == 11

ELFOSABI_OPENBSD == 12

ELFOSABI_ARM_AEABI == 64

ELFOSABI_ARM == 97

ELFOSABI_STANDALONE == 255

EI_ABIVERSION == 8

\* ---------------------------------------------------------------------
\* Bounds of the input space
\* ---------------------------------------------------------------------
\* Field bytes (class, encoding, version, ABI version) range over 0..MaxByte.
MaxByte == 2

\* Number of distinct fill values tried for the padding bytes 9..15.
MaxPad == 2

U8 == 0..255

KnownOsAbi ==
    { ELFOSABI_NONE, ELFOSABI_SYSV, ELFOSABI_HPUX, ELFOSABI_NETBSD,
      ELFOSABI_LINUX, ELFOSABI_SOLARIS, ELFOSABI_AIX, ELFOSABI_IRIX,
      ELFOSABI_FREEBSD, ELFOSABI_TRU64, ELFOSABI_MODESTO, ELFOSABI_OPENBSD,
      ELFOSABI_ARM_AEABI, ELFOSABI_ARM, ELFOSABI_STANDALONE }

FieldVals == 0..MaxByte

\* the recognised ABI values, the small bytes, and two unassigned values
OsAbiVals == KnownOsAbi \cup FieldVals \cup {4, 5}

\* padding fill values 0, 255, 254, ...
PadVals == {0} \cup {256 - k : k \in 1..(MaxPad - 1)}

\* each magic byte is either the right one or 0
MagicVals(i) == {ELFMAG[i + 1], 0}

MagicCandidates ==
    { f \in [0..(SELFMAG - 1) -> {0} \cup {ELFMAG[k] : k \in 1..SELFMAG}] :
        \A i \in 0..(SELFMAG - 1) : f[i] \in MagicVals(i) }

\* the 16-byte headers with the fields drawn from the given sets
Headers(ms, cs, ds, vs, os, as, ps) ==
    { [i \in 0..(EI_NIDENT - 1) |->
         IF i < SELFMAG THEN m[i]
         ELSE IF i = EI_CLASS THEN c
         ELSE IF i = EI_DATA THEN d
         ELSE IF i = EI_VERSION THEN v
         ELSE IF i = EI_OSABI THEN o
         ELSE IF i = EI_ABIVERSION THEN a
         ELSE p] :
      m \in ms, c \in cs, d \in ds, v \in vs, o \in os, a \in as, p \in ps }

\* The byte strings a file of at least EI_NIDENT bytes may start with: after
\* the right magic every combination of the field and padding bytes, after
\* any magic every class, encoding, OS/ABI and padding byte.
FileBytes ==
    Headers({[i \in 0..(SELFMAG - 1) |-> ELFMAG[i + 1]]}, FieldVals, FieldVals,
            FieldVals, OsAbiVals, FieldVals, PadVals)
      \cup
    Headers(MagicCandidates, FieldVals, FieldVals, {EV_CURRENT}, OsAbiVals,
            {0}, PadVals)

\* The files a short read is tried on: every magic, class and OS/ABI byte,
\* the other fields valid and the padding zero.
ShortFileBytes ==
    Headers(MagicCandidates, FieldVals, {ELFDATA2LSB}, {EV_CURRENT}, OsAbiVals,
            {0}, {0})

\* ---------------------------------------------------------------------
\* Formatting ({:x}, {:02X?}) as Rust's fmt does it
\* ---------------------------------------------------------------------
LowerDigits == <<"0","1","2","3","4","5","6","7","8","9","a","b","c","d","e","f">>

UpperDigits == <<"0","1","2","3","4","5","6","7","8","9","A","B","C","D","E","F">>

\* format!("{:x}", b) for a u8: lower-case hex, no padding
LowerHex(b) ==
    IF b < 16 THEN LowerDigits[b + 1]
    ELSE LowerDigits[(b \div 16) + 1] \o LowerDigits[(b % 16) + 1]

\* format!("{:02X}", b) for a u8: upper-case hex, zero-padded to width 2
UpperHex2(b) == UpperDigits[(b \div 16) + 1] \o UpperDigits[(b % 16) + 1]

\* format!("{:02X?}", &ident[..SELFMAG]): debug list of the magic bytes
MagicDebug(id) ==
    "[" \o UpperHex2(id[0]) \o ", " \o UpperHex2(id[1]) \o ", "
        \o UpperHex2(id[2]) \o ", " \o UpperHex2(id[3]) \o "]"

\* ---------------------------------------------------------------------
\* Messages
\* ---------------------------------------------------------------------
InputElf == "a.out"

\* {:?} of a path prints it between double quotes
Quote == "\""

Banner == "Parsing ELF file [" \o Quote \o InputElf \o Quote \o "]..."

OpenFailedMsg == "could not open file"

ReadFailedMsg == "something happened"

MalformedMsg == "Unexpected or malform ELF file."

NoMagicMsg == "Failed to read file's magic number."

BadMagicMsg == "Unknown or bad magic number."

\* the backquote of the messages below; a TLA+ string cannot hold that
\* character, an apostrophe stands for it
Tick == "'"

ClassMsg(b) == "Invalid ELF class " \o LowerHex(b)

DataMsg(b) == "Unknown ELF DATA format " \o LowerHex(b)

VersionMsg(b) == "Unknown ELF Version " \o Tick \o LowerHex(b) \o Tick

OsAbiMsg(b) == "OS/ABI Version " \o Tick \o LowerHex(b) \o Tick \o " not supported"

AbiVersionMsg(b) == "Extended ABI version " \o Tick \o LowerHex(b) \o Tick \o " not supported"

\* ---------------------------------------------------------------------
\* State
\* ---------------------------------------------------------------------
VARIABLES
    pc,        \* position in main
    n,         \* bytes returned by fd.read
    ident,     \* the e_ident buffer, [0..15 -> u8]
    stdout,    \* lines printed with println!
    stderr,    \* lines printed with eprintln!
    panicMsg,  \* message of the panic that ended the process, NoPanic if none
    evaluated, \* history: the checks evaluated so far, in order
    accessed   \* history: the indices of ident read by the checks

vars == <<pc, n, ident, stdout, stderr, panicMsg, evaluated, accessed>>

NoPanic == "<none>"

ZeroIdent == [i \in 0..(EI_NIDENT - 1) |-> 0]

Init ==
    /\ pc = "start"
    /\ n = 0
    /\ ident = ZeroIdent
    /\ stdout = <<>>
    /\ stderr = <<>>
    /\ panicMsg = NoPanic
    /\ evaluated = <<>>
    /\ accessed = {}

\* variant: the failure is handed back and main returns normally
PanicReturns(msg) ==
    /\ pc' = "done"
    /\ panicMsg' = msg

\* panic!(msg): the process ends with msg
Panic(msg) ==
    /\ pc' = "panic"
    /\ panicMsg' = msg

\* variant: the line is dropped instead of printed
PrintAndGoSilent(line, next) ==
    /\ stdout' = stdout
    /\ pc' = next
    /\ panicMsg' = panicMsg

\* println!(line) and go on to the next statement
PrintAndGo(line, next) ==
    /\ stdout' = Append(stdout, line)
    /\ pc' = next
    /\ panicMsg' = panicMsg

\* ---------------------------------------------------------------------
\* Steps of main
\* ---------------------------------------------------------------------
Start ==
    /\ pc = "start"
    /\ PrintAndGo(Banner, "open")
    /\ UNCHANGED <<n, ident, stderr, evaluated, accessed>>

OpenOk ==
    /\ pc = "open"
    /\ pc' = "read"
    /\ UNCHANGED <<n, ident, stdout, stderr, panicMsg, evaluated, accessed>>

OpenFails ==
    /\ pc = "open"
    /\ Panic(OpenFailedMsg)
    /\ UNCHANGED <<n, ident, stdout, stderr, evaluated, accessed>>

\* fd.read(&mut ident[..]): the first k bytes of the buffer are overwritten,
\* the rest keeps the zeros it was initialised with
ReadOk ==
    /\ pc = "read"
    /\ \E k \in 0..EI_NIDENT :
         \E f \in (IF k = EI_NIDENT THEN FileBytes ELSE ShortFileBytes) :
          /\ n' = k
          /\ ident' = [i \in 0..(EI_NIDENT - 1) |-> IF i < k THEN f[i] ELSE ident[i]]
    /\ pc' = "length"
    /\ UNCHANGED <<stdout, stderr, panicMsg, evaluated, accessed>>

ReadFails ==
    /\ pc = "read"
    /\ Panic(ReadFailedMsg)
    /\ UNCHANGED <<n, ident, stdout, stderr, evaluated, accessed>>

\* variant: only the magic-sized length test is made
LengthBranchNoNident(k) ==
    IF k < SELFMAG THEN NoMagicMsg
    ELSE NoPanic

\* variant: the two length tests in the opposite order
LengthBranchSwapped(k) ==
    IF k < SELFMAG THEN NoMagicMsg
    ELSE IF k < EI_NIDENT THEN MalformedMsg
    ELSE NoPanic

\* the two length branches of the guard: which panic, if any, they take
LengthBranch(k) ==
    IF k < EI_NIDENT THEN MalformedMsg
    ELSE IF k < SELFMAG THEN NoMagicMsg
    ELSE NoPanic

CheckLength ==
    /\ pc = "length"
    /\ evaluated' = Append(evaluated, "length")
    /\ IF LengthBranch(n) # NoPanic
         THEN Panic(LengthBranch(n))
         ELSE pc' = "magic" /\ panicMsg' = panicMsg
    /\ UNCHANGED <<n, ident, stdout, stderr, accessed>>

\* variant: the comparison stops one byte short
MagicOkShort(id) == \A i \in 0..(SELFMAG - 2) : id[i] = ELFMAG[i + 1]

MagicOk(id) == \A i \in 0..(SELFMAG - 1) : id[i] = ELFMAG[i + 1]

CheckMagic ==
    /\ pc = "magic"
    /\ evaluated' = Append(evaluated, "magic")
    /\ accessed' = accessed \cup (0..(SELFMAG - 1))
    /\ IF ~MagicOk(ident)
         THEN /\ stderr' = Append(stderr, MagicDebug(ident))
              /\ Panic(BadMagicMsg)
         ELSE /\ stderr' = stderr
              /\ pc' = "class"
              /\ panicMsg' = panicMsg
    /\ UNCHANGED <<n, ident, stdout>>

\* the wildcard arm of a match: no literal arm matched the byte
Unmatched == "<unmatched>"

\* variant: the two class arms print each other's name
ClassNameSwapped(c) ==
    IF c = ELFCLASS64 THEN "ELF32"
    ELSE IF c = ELFCLASS32 THEN "ELF64"
    ELSE Unmatched

ClassName(c) ==
    IF c = ELFCLASS64 THEN "ELF64"
    ELSE IF c = ELFCLASS32 THEN "ELF32"
    ELSE Unmatched

CheckClass ==
    /\ pc = "class"
    /\ evaluated' = Append(evaluated, "class")
    /\ accessed' = accessed \cup {EI_CLASS}
    /\ LET class == ident[EI_CLASS] IN
         IF ClassName(class) # Unmatched
           THEN PrintAndGo(ClassName(class), "data")
           ELSE Panic(ClassMsg(class)) /\ stdout' = stdout
    /\ UNCHANGED <<n, ident, stderr>>

DataName(d) ==
    IF d = ELFDATA2LSB THEN "2's complement, little-endian"
    ELSE IF d = ELFDATA2MSB THEN "2's complement, big-endian"
    ELSE Unmatched

\* variant: the encoding is read from the version byte
CheckDataWrongIndex ==
    /\ pc = "data"
    /\ evaluated' = Append(evaluated, "data")
    /\ accessed' = accessed \cup {EI_VERSION}
    /\ LET endianess == ident[EI_VERSION] IN
         IF DataName(endianess) # Unmatched
           THEN PrintAndGo(DataName(endianess), "version")
           ELSE Panic(DataMsg(endianess)) /\ stdout' = stdout
    /\ UNCHANGED <<n, ident, stderr>>

CheckData ==
    /\ pc = "data"
    /\ evaluated' = Append(evaluated, "data")
    /\ accessed' = accessed \cup {EI_DATA}
    /\ LET endianess == ident[EI_DATA] IN
         IF DataName(endianess) # Unmatched
           THEN PrintAndGo(DataName(endianess), "version")
           ELSE Panic(DataMsg(endianess)) /\ stdout' = stdout
    /\ UNCHANGED <<n, ident, stderr>>

VersionName(v) ==
    IF v = EV_CURRENT THEN "1 (current)"
    ELSE Unmatched

\* variant: an unknown version is noted but the run goes on
CheckVersionGoesOn ==
    /\ pc = "version"
    /\ evaluated' = Append(evaluated, "version")
    /\ accessed' = accessed \cup {EI_VERSION}
    /\ LET version == ident[EI_VERSION] IN
         IF VersionName(version) # Unmatched
           THEN PrintAndGo(VersionName(version), "osabi")
           ELSE /\ panicMsg' = VersionMsg(version)
                /\ pc' = "osabi"
                /\ stdout' = stdout
    /\ UNCHANGED <<n, ident, stderr>>

CheckVersion ==
    /\ pc = "version"
    /\ evaluated' = Append(evaluated, "version")
    /\ accessed' = accessed \cup {EI_VERSION}
    /\ LET version == ident[EI_VERSION] IN
         IF VersionName(version) # Unmatched
           THEN PrintAndGo(VersionName(version), "osabi")
           ELSE Panic(VersionMsg(version)) /\ stdout' = stdout
    /\ UNCHANGED <<n, ident, stderr>>

\* variant: FreeBSD has an arm of its own
OsAbiNameFreeBsd(o) ==
    IF o = ELFOSABI_SYSV THEN "UNIX - System V"
    ELSE IF o = ELFOSABI_LINUX THEN "Linux"
    ELSE IF o = ELFOSABI_FREEBSD THEN "FreeBSD"
    ELSE Unmatched

OsAbiName(o) ==
    IF o = ELFOSABI_SYSV THEN "UNIX - System V"
    ELSE IF o = ELFOSABI_LINUX THEN "Linux"
    ELSE Unmatched

CheckOsAbi ==
    /\ pc = "osabi"
    /\ evaluated' = Append(evaluated, "osabi")
    /\ accessed' = accessed \cup {EI_OSABI}
    /\ LET osabi == ident[EI_OSABI] IN
         IF OsAbiName(osabi) # Unmatched
           THEN PrintAndGo(OsAbiName(osabi), "abiversion")
           ELSE Panic(OsAbiMsg(osabi)) /\ stdout' = stdout
    /\ UNCHANGED <<n, ident, stderr>>

AbiVersionOk(a) == a = 0

CheckAbiVersion ==
    /\ pc = "abiversion"
    /\ evaluated' = Append(evaluated, "abiversion")
    /\ accessed' = accessed \cup {EI_ABIVERSION}
    /\ LET abi == ident[EI_ABIVERSION] IN
         IF ~AbiVersionOk(abi)
           THEN Panic(AbiVersionMsg(abi)) /\ stdout' = stdout
           ELSE PrintAndGo(LowerHex(abi), "done")
    /\ UNCHANGED <<n, ident, stderr>>

Next ==
    \/ Start
    \/ OpenOk
    \/ OpenFails
    \/ ReadOk
    \/ ReadFails
    \/ CheckLength
    \/ CheckMagic
    \/ CheckClass
    \/ CheckData
    \/ CheckVersion
    \/ CheckOsAbi
    \/ CheckAbiVersion

Spec == Init /\ [][Next]_vars

TypeOK ==
    /\ pc \in {"start", "open", "read", "length", "magic", "class", "data",
               "version", "osabi", "abiversion", "done", "panic"}
    /\ n \in 0..EI_NIDENT
    /\ ident \in [0..(EI_NIDENT - 1) -> U8]
    /\ accessed \subseteq 0..(EI_NIDENT - 1)

\* ---------------------------------------------------------------------
\* Properties
\* ---------------------------------------------------------------------
Terminated == pc \in {"done", "panic"}

\* the check chain has begun: the file was opened and read
ChainStarted == evaluated # <<>>

ChainEnded == ChainStarted /\ Terminated

CheckOrder == <<"length", "magic", "class", "data", "version", "osabi", "abiversion">>

MagicMatches(id) ==
    id[0] = 127 /\ id[1] = 69 /\ id[2] = 76 /\ id[3] = 70

\* does check number i of CheckOrder reject the input (k bytes read into id)
Rejects(i, k, id) ==
    CASE i = 1 -> k < 16
      [] i = 2 -> ~MagicMatches(id)
      [] i = 3 -> id[4] \notin {1, 2}
      [] i = 4 -> id[5] \notin {1, 2}
      [] i = 5 -> id[6] # 1
      [] i = 6 -> id[7] \notin {0, 3}
      [] i = 7 -> id[8] # 0

\* the message check number i fails with
FailureOf(i, id) ==
    CASE i = 1 -> MalformedMsg
      [] i = 2 -> BadMagicMsg
      [] i = 3 -> ClassMsg(id[4])
      [] i = 4 -> DataMsg(id[5])
      [] i = 5 -> VersionMsg(id[6])
      [] i = 6 -> OsAbiMsg(id[7])
      [] i = 7 -> AbiVersionMsg(id[8])

Rejecting(k, id) == {i \in 1..7 : Rejects(i, k, id)}

FirstRejecting(k, id) ==
    CHOOSE i \in Rejecting(k, id) : \A j \in Rejecting(k, id) : i <= j

IsPrefix(s, t) == Len(s) <= Len(t) /\ s = SubSeq(t, 1, Len(s))

\* C1: the checks run in the order length, magic, class, encoding, version,
\* OS/ABI, ABI version; the run ends with the failure of the first check in
\* that order that rejects the input, carrying that field's raw value, and
\* no later check is evaluated, however many fields are invalid.
C1_FirstFailureWins ==
    /\ IsPrefix(evaluated, CheckOrder)
    /\ ChainEnded =>
         IF Rejecting(n, ident) = {}
           THEN pc = "done" /\ evaluated = CheckOrder
           ELSE LET f == FirstRejecting(n, ident) IN
                  /\ pc = "panic"
                  /\ panicMsg = FailureOf(f, ident)
                  /\ evaluated = SubSeq(CheckOrder, 1, f)
                  /\ f = 2 => stderr = <<MagicDebug(ident)>>
                  /\ f \in 3..7 =>
                       \A v \in OsAbiVals :
                         FailureOf(f, [ident EXCEPT ![f + 1] = v]) = panicMsg
                           => v = ident[f + 1]

\* a run that stopped at the class check although the encoding and the
\* OS/ABI bytes are invalid too
C1_Witness ==
    /\ pc = "panic"
    /\ panicMsg = ClassMsg(0)
    /\ ident[5] = 0
    /\ ident[7] = 1
    /\ evaluated = <<"length", "magic", "class">>

\* C2: a 16-byte buffer is accepted exactly when the magic is 7F 45 4C 46,
\* byte 4 is 1 or 2, byte 5 is 1 or 2, byte 6 is 1, byte 7 is 0 or 3 and byte
\* 8 is 0, whatever the padding holds; the accepted run reports the decoded
\* class, encoding, version, OS/ABI and ABI version 0.
C2_AcceptsExactlyValid ==
    (ChainEnded /\ n = 16) =>
      /\ pc = "done" <=>
           /\ MagicMatches(ident)
           /\ ident[4] \in {1, 2}
           /\ ident[5] \in {1, 2}
           /\ ident[6] = 1
           /\ ident[7] \in {0, 3}
           /\ ident[8] = 0
      /\ pc = "done" =>
           /\ panicMsg = NoPanic
           /\ stdout = << Banner,
                          IF ident[4] = 1 THEN "ELF32" ELSE "ELF64",
                          IF ident[5] = 1 THEN "2's complement, little-endian"
                                          ELSE "2's complement, big-endian",
                          "1 (current)",
                          IF ident[7] = 0 THEN "UNIX - System V" ELSE "Linux",
                          "0" >>

\* the ELF32, big-endian, Linux header with non-zero padding is accepted
C2_Witness ==
    /\ pc = "done"
    /\ ident[4] = 1
    /\ ident[5] = 2
    /\ ident[7] = 3
    /\ ident[15] = 255
    /\ stdout[2] = "ELF32"

\* C3: a read of fewer than 16 bytes ends with the truncation failure, never
\* with the magic or a field failure, and no index of the buffer at or beyond
\* the number of bytes read is looked at.
C3_ShortReadTruncated ==
    n < 16 =>
      /\ \A i \in accessed : i < n
      /\ pc \notin {"magic", "class", "data", "version", "osabi", "abiversion", "done"}
      /\ ChainStarted =>
           /\ pc = "panic"
           /\ panicMsg = MalformedMsg
           /\ stderr = <<>>
           /\ evaluated = <<"length">>

\* two bytes read, the first of them not the magic's
C3_Witness ==
    /\ pc = "panic"
    /\ n = 2
    /\ ident[0] = 0
    /\ ident[1] = 69
    /\ panicMsg = MalformedMsg

\* C4: a 16-byte buffer whose first 4 bytes differ from 7F 45 4C 46 in some
\* position fails with the bad-magic failure, and exactly the 4 bytes found
\* are reported with it, whatever bytes 4..15 hold.
C4_BadMagicCarriesBytes ==
    (ChainEnded /\ n = 16 /\ ~MagicMatches(ident)) =>
      /\ pc = "panic"
      /\ panicMsg = BadMagicMsg
      /\ Len(stderr) = 1
      /\ \A b \in MagicCandidates :
           MagicDebug(b) = stderr[1] <=> \A i \in 0..3 : b[i] = ident[i]

\* only the last magic byte is wrong, and later fields are invalid as well
C4_Witness ==
    /\ pc = "panic"
    /\ panicMsg = BadMagicMsg
    /\ ident[0] = 127 /\ ident[1] = 69 /\ ident[2] = 76 /\ ident[3] = 0
    /\ ident[4] = 0
    /\ stderr = <<"[7F, 45, 4C, 00]">>

\* C5 as stated: no failure of a check ends the process; the failure is
\* handed back and main comes to its end.
C5_NeverAborts ==
    ChainStarted => pc # "panic"

\* C5 (amended): every failure of a check ends the process with a panic
\* carrying that check's message; a run reaches the end of main only when no
\* check rejects the input.
C5_FailureIsPanic ==
    /\ ChainEnded =>
         /\ pc = "panic" <=> Rejecting(n, ident) # {}
         /\ pc = "panic" <=> panicMsg \in {FailureOf(i, ident) : i \in 1..7}
         /\ pc = "done" <=> panicMsg = NoPanic
    /\ (ChainStarted /\ ~Terminated) => panicMsg = NoPanic

\* an unsupported ABI version ended the process
C5_Witness ==
    /\ pc = "panic"
    /\ ident[8] = 2
    /\ panicMsg = AbiVersionMsg(2)

\* C6: once magic, class, encoding and version have passed, any byte 7 other
\* than 0 and 3, the recognised ABI values included, fails with the
\* unsupported-OS/ABI failure carrying that byte, whatever byte 8 holds.
C6_OnlySysVAndLinux ==
    ( /\ ChainEnded
      /\ n = 16
      /\ MagicMatches(ident)
      /\ ident[4] \in {1, 2}
      /\ ident[5] \in {1, 2}
      /\ ident[6] = 1
      /\ ident[7] \notin {0, 3} ) =>
        /\ pc = "panic"
        /\ evaluated = SubSeq(CheckOrder, 1, 6)
        /\ 8 \notin accessed
        /\ \A v \in U8 : panicMsg = OsAbiMsg(v) <=> v = ident[7]

\* the stand-alone ABI value 255 is rejected, byte 8 being invalid too
C6_Witness ==
    /\ pc = "panic"
    /\ ident[7] = 255
    /\ ident[8] = 1
    /\ panicMsg = "OS/ABI Version 'ff' not supported"

\* C7 as stated: the checks emit no output, whether they pass or fail.
C7_NoOutput ==
    ChainStarted => (stdout = <<Banner>> /\ stderr = <<>>)

\* the stdout line written when check number i (a field check) passes
LineOf(i, id) ==
    CASE i = 3 -> IF id[4] = 2 THEN "ELF64" ELSE "ELF32"
      [] i = 4 -> IF id[5] = 1 THEN "2's complement, little-endian"
                               ELSE "2's complement, big-endian"
      [] i = 5 -> "1 (current)"
      [] i = 6 -> IF id[7] = 0 THEN "UNIX - System V" ELSE "Linux"
      [] i = 7 -> "0"

\* number of checks passed so far
Passed == IF pc = "panic" THEN Len(evaluated) - 1 ELSE Len(evaluated)

\* C7 (amended): the checks write as they go: every field check that passes
\* prints its line on stdout before the next check runs, so a run that fails
\* at a later check has already reported the earlier fields; a bad magic
\* prints the 4 bytes on stderr; the checks change neither the buffer nor the
\* byte count.
C7_ReportsAsItGoes ==
    /\ [](ChainStarted =>
           /\ Len(stdout) = 1 + (IF Passed > 2 THEN Passed - 2 ELSE 0)
           /\ stdout[1] = Banner
           /\ \A i \in 3..Passed : stdout[i - 1] = LineOf(i, ident)
           /\ stderr = IF panicMsg = BadMagicMsg THEN <<MagicDebug(ident)>> ELSE <<>>)
    /\ [][pc # "read" => (ident' = ident /\ n' = n)]_vars

\* a run that failed at the OS/ABI check has printed class, encoding and
\* version
C7_Witness ==
    /\ pc = "panic"
    /\ panicMsg = OsAbiMsg(1)
    /\ stdout = <<Banner, "ELF64", "2's complement, little-endian", "1 (current)">>

NoDuplicates(s) == \A i, j \in 1..Len(s) : s[i] = s[j] => i = j

\* statements of main still ahead of position p, at most
StepsLeft(p) ==
    CASE p = "start" -> 10
      [] p = "open" -> 9
      [] p = "read" -> 8
      [] p = "length" -> 7
      [] p = "magic" -> 6
      [] p = "class" -> 5
      [] p = "data" -> 4
      [] p = "version" -> 3
      [] p = "osabi" -> 2
      [] p = "abiversion" -> 1
      [] p = "done" -> 0
      [] p = "panic" -> 0

\* C9: every run of the check chain ends, after at most seven checks, either
\* at the end of main or in one failure: a run that has not ended can always
\* take a step, every step brings the end nearer, and each step evaluates at
\* most one check, the next of the chain; after a failed check nothing more
\* happens: no earlier check is gone back to, the failed check is not
\* evaluated again, and the end of main is not reached.
C9_LinearChain ==
    /\ [](/\ ~Terminated => ENABLED Next
          /\ Len(evaluated) <= 7
          /\ StepsLeft(pc) <= 7 => Len(evaluated) + StepsLeft(pc) <= 7
          /\ NoDuplicates(evaluated)
          /\ pc = "done" => panicMsg = NoPanic
          /\ pc = "panic" => panicMsg # NoPanic
          /\ (ChainStarted /\ panicMsg # NoPanic) => pc = "panic")
    /\ [][StepsLeft(pc') < StepsLeft(pc)]_vars
    /\ [][pc # "panic" /\ pc # "done"]_vars
    /\ [][IsPrefix(evaluated, evaluated') /\ Len(evaluated') <= Len(evaluated) + 1]_vars

\* a run that passed six checks and failed the seventh
C9_Witness ==
    /\ pc = "panic"
    /\ Len(evaluated) = 7
    /\ panicMsg = AbiVersionMsg(1)

\* C10: in the length/magic guard a read of fewer than 4 bytes takes the
\* first branch (n < EI_NIDENT); the second branch (n < SELFMAG) is never
\* taken, so its message is never produced.
C10_SelfmagBranchDead ==
    /\ panicMsg # NoMagicMsg
    /\ (ChainStarted /\ n < 4) => (pc = "panic" /\ panicMsg = MalformedMsg)
    /\ (pc = "magic") => n >= 4

\* three bytes read
C10_Witness ==
    /\ pc = "panic"
    /\ n = 3
    /\ evaluated = <<"length">>
    /\ panicMsg = "Unexpected or malform ELF file."

====
